---- MODULE Spec2Model ----
(***************************************************************************)
(* Model of management/dns_update.py: zone apex selection, zone record     *)
(* synthesis, zone-file change detection with serial advancement, DNSSEC   *)
(* signing and the do_dns_update orchestrator.                             *)
(*                                                                         *)
(* A domain name is the sequence of its dot-separated labels, leftmost     *)
(* label first: "sub.a.example" is <<"sub", "a", "example">>.  Labels hold *)
(* no dot, so the string test  x.endswith("." + d)  is the test that d is  *)
(* a proper suffix of x as a label sequence.                               *)
(***************************************************************************)
EXTENDS Integers, Sequences, FiniteSets, TLC

VARIABLES
    mail_domains,        \* get_mail_domains(env): domains of mail users and aliases
    additional_records,  \* STORAGE_ROOT/dns/custom.yaml, in document order
    env,                 \* appliance settings and the read-only files under STORAGE_ROOT
    now,                 \* the clock, in half days since 2024-06-01 00:00
    dnssec,              \* dns/dnssec/keys.conf and the generic key files
    zone_fs,             \* /etc/nsd/zones/<zone>.txt          (DOMAIN = files that exist)
    signed_fs,           \* /etc/nsd/zones/<zone>.txt.signed   (DOMAIN = files that exist)
    ds_fs,               \* /etc/nsd/zones/<zone>.txt.ds       (DOMAIN = files that exist)
    nsd_conf,            \* /etc/nsd/nsd.conf
    tmp_fs,              \* the specialized key files under /tmp
    pc,                  \* position of the running do_dns_update
    zonefiles,           \* local of do_dns_update / result of get_dns_zones
    idx,                 \* loop index of do_dns_update
    updated_domains,     \* local of do_dns_update
    records,             \* local of do_dns_update / result of build_zone
    call,                \* arguments and outcome of the most recent call
    hist                 \* what the runs did (services restarted, files written)

vars == <<mail_domains, additional_records, env, now, dnssec, zone_fs, signed_fs,
          ds_fs, nsd_conf, tmp_fs, pc, zonefiles, idx, updated_domains, records,
          call, hist>>

(***************************************************************************)
(* Strings.                                                                *)
(***************************************************************************)
\* len(label)
LabelLen(l) ==
    CASE l \in {"a", "b"} -> 1
      [] l \in {"_25", "box", "ns1", "ns2", "org", "sub", "www"} -> 3
      [] l \in {"_tcp", "mail"} -> 4
      [] l = "email" -> 5
      [] l = "_dmarc" -> 6
      [] l = "example" -> 7
      [] l = "_domainkey" -> 10
      [] l = "justtesting" -> 11

\* Position of a label in Python's str ordering (code points: digits < '_' < letters).
LabelRank(l) ==
    CASE l = "_25" -> 1 [] l = "_dmarc" -> 2 [] l = "_domainkey" -> 3
      [] l = "_tcp" -> 4 [] l = "a" -> 5 [] l = "b" -> 6 [] l = "box" -> 7
      [] l = "email" -> 8 [] l = "example" -> 9 [] l = "justtesting" -> 10
      [] l = "mail" -> 11 [] l = "ns1" -> 12 [] l = "ns2" -> 13
      [] l = "org" -> 14 [] l = "sub" -> 15 [] l = "www" -> 16

RECURSIVE SumLabelLen(_)
SumLabelLen(d) == IF d = <<>> THEN 0 ELSE LabelLen(Head(d)) + SumLabelLen(Tail(d))

\* len(d) of the dotted string
StrLen(d) == IF d = <<>> THEN 0 ELSE SumLabelLen(d) + (Len(d) - 1)

\* x.endswith(d) for two different names: the "." is forgotten, so that the first
\* label of d need only end the label of x it is matched with ("sub" ends with "b").
EndsWithoutDot(x, d) ==
    /\ Len(x) >= Len(d) /\ Len(d) > 0 /\ x # d
    /\ SubSeq(x, Len(x) - Len(d) + 2, Len(x)) = Tail(d)
    /\ \/ x[Len(x) - Len(d) + 1] = Head(d)
       \/ x[Len(x) - Len(d) + 1] = "sub" /\ Head(d) = "b"

\* x.endswith("." + d)
EndsWithDot(x, d) ==
    /\ Len(x) > Len(d)
    /\ SubSeq(x, Len(x) - Len(d) + 1, Len(x)) = d

\* x[0:-len("." + d)] for an x that ends with "." + d
StripSuffix(x, d) == SubSeq(x, 1, Len(x) - Len(d))

Reverse(s) == [i \in 1..Len(s) |-> s[Len(s) + 1 - i]] \o <<>>

\* Python's list < list on lists of strings
RECURSIVE ListLess(_, _)
ListLess(a, b) ==
    IF b = <<>> THEN FALSE
    ELSE IF a = <<>> THEN TRUE
    ELSE IF Head(a) = Head(b) THEN ListLess(Tail(a), Tail(b))
    ELSE LabelRank(Head(a)) < LabelRank(Head(b))

RECURSIVE SeqToSet(_)
SeqToSet(s) == IF s = <<>> THEN {} ELSE {Head(s)} \cup SeqToSet(Tail(s))

\* The orders in which iterating a Python set may yield its elements.
Orders(S) == {s \in [1..Cardinality(S) -> S] : \A x \in S : \E i \in DOMAIN s : s[i] = x}

\* list.sort / sorted: less[i, j] says that the key of s[i] is below the key of s[j].
\* Every element goes behind the elements with a smaller key and behind the
\* earlier elements with an equal key (the sort is stable).
\* (Appending <<>> makes TLC compute a sequence once.)
StableSort(s, less) ==
    LET pos == [i \in DOMAIN s |->
                  1 + Cardinality({j \in DOMAIN s :
                        IF j < i THEN ~less[i, j] ELSE less[j, i]})] \o <<>>
    IN  [p \in DOMAIN s |-> s[CHOOSE i \in DOMAIN s : pos[i] = p]] \o <<>>

(***************************************************************************)
(* Settings.                                                               *)
(***************************************************************************)
PRIMARY_HOSTNAME == <<"box", "example">>

\* env: /etc/mailinabox.conf, with the files under STORAGE_ROOT that are only read:
\* dkim says whether mail/dkim/mail.txt exists, cert is ssl/ssl_certificate.pem.
Envs == [PRIMARY_HOSTNAME : {PRIMARY_HOSTNAME},
         PUBLIC_IP        : {"203.0.113.1"},
         PUBLIC_IPV6      : {"", "2001:db8::1"},
         dkim             : BOOLEAN,
         cert             : {"cert1"},
         hostname_I       : {<<"192.0.2.10">>}]

DomainPool == {<<"example">>, <<"a", "example">>, <<"b", "example">>,
               <<"sub", "a", "example">>, <<"www", "b", "example">>,
               <<"box", "example">>, <<"www", "box", "example">>,
               <<"sub", "example">>, <<"www", "example">>}

(***************************************************************************)
(* Zone apex selection.                                                    *)
(***************************************************************************)
get_dns_domains(maildomains, e) == maildomains \cup {e.PRIMARY_HOSTNAME}

\* the domains as the set yields them, not sorted
Unsorted(iter) == iter

\* sorted(domains, key=lambda d : len(d)), line 27
SortByLen(iter) ==
    LET keys == [i \in DOMAIN iter |-> StrLen(iter[i])] \o <<>>
    IN  StableSort(iter, [i, j \in DOMAIN iter |-> keys[i] < keys[j]])

\* The scan of lines 27-34 over the domains already sorted by length.
RECURSIVE ScanZones(_, _)
ScanZones(sorted, zone_domains) ==
    IF sorted = <<>> THEN zone_domains
    ELSE ScanZones(Tail(sorted),
                   IF \E d \in zone_domains : EndsWithDot(Head(sorted), d)
                   THEN zone_domains
                   ELSE zone_domains \cup {Head(sorted)})

\* utils.safe_domain_name: an injective quoting of the name for use as a file name.
safe_domain_name(d) == <<"safe">> \o d

\* utils.sort_domains: PRIMARY_HOSTNAME first, the rest by reversed labels.
sort_domains(names, e) ==
    LET DomainLess(a, b) ==
            IF a = e.PRIMARY_HOSTNAME THEN b # e.PRIMARY_HOSTNAME
            ELSE IF b = e.PRIMARY_HOSTNAME THEN FALSE
            ELSE ListLess(Reverse(a), Reverse(b))
    IN  StableSort(names, [i, j \in DOMAIN names |-> DomainLess(names[i], names[j])])

RECURSIVE IndexOf(_, _)
IndexOf(s, x) == IF Head(s) = x THEN 0 ELSE 1 + IndexOf(Tail(s), x)

\* get_dns_zones; iter is the order in which the set of domains is iterated.
get_dns_zones(iter, e) ==
    LET zone_domains == ScanZones(SortByLen(iter), {})
        ziter        == SelectSeq(iter, LAMBDA d : d \in zone_domains)
        listed       == [i \in 1..Len(ziter) |->
                           [domain |-> ziter[i],
                            zonefile |-> safe_domain_name(ziter[i]) \o <<".txt">>]] \o <<>>
        zone_order   == sort_domains([i \in 1..Len(listed) |-> listed[i].domain], e)
        keys         == [i \in DOMAIN listed |-> IndexOf(zone_order, listed[i].domain)] \o <<>>
    IN  StableSort(listed, [i, j \in DOMAIN listed |-> keys[i] < keys[j]])

(***************************************************************************)
(* Record builder.                                                         *)
(***************************************************************************)
\* A resource record is [qname, rtype, value]; the qname None is the apex.
None == <<>>

Rec(qname, rtype, value) == [qname |-> qname, rtype |-> rtype, value |-> value]

\* A value of custom.yaml: a bare string, or a mapping given as its items in order.
Str(s)    == [bare |-> TRUE,  str |-> s,  items |-> <<>>]
Dict(kvs) == [bare |-> FALSE, str |-> "", items |-> kvs]

\* rec[1] == x in Python, rec[1] being a str: a mapping never equals a str.
PyEq(rtype, x) == x.bare /\ x.str = rtype

has_rec(recs, qname, rtype) ==
    \E i \in DOMAIN recs : recs[i].qname = qname /\ PyEq(recs[i].rtype, rtype)

build_tlsa_record(e) == <<"3 0 1 ", "sha256", e.cert>>

\* key of records.sort, line 202
SortKey(rec) == IF rec.qname # None THEN Reverse(rec.qname) ELSE <<>>

\* the records left in the order in which they were appended
NotSorted(recs) == recs

\* records.sort(key = ...), line 202
SortRecords(recs) ==
    LET keys == [i \in DOMAIN recs |-> SortKey(recs[i])] \o <<>>
    IN  StableSort(recs, [i, j \in DOMAIN recs |-> ListLess(keys[i], keys[j])])

\* the child record kept under the qname it has in the child zone
Unqualified(child, subdomain_qname) == child

\* lines 148-152
Requalify(child, subdomain_qname) ==
    Rec(IF child.qname = None THEN subdomain_qname ELSE child.qname \o subdomain_qname,
        child.rtype, child.value)

\* lines 180-182: one record per item of a mapping
RECURSIVE DictRecords(_, _)
DictRecords(qname, items) ==
    IF items = <<>> THEN <<>>
    ELSE <<Rec(qname, Head(items)[1],
               IF Head(items)[1] = "TXT" THEN <<"\"", Head(items)[2], "\"">>
                                         ELSE <<Head(items)[2]>>)>>
         \o DictRecords(qname, Tail(items))

\* lines 170-182: the user's records, in the order of the document
RECURSIVE ApplyOverrides(_, _, _)
ApplyOverrides(recs, additional, domain) ==
    IF additional = <<>> THEN recs
    ELSE LET name  == Head(additional).name
             value == Head(additional).value
             qname == IF name = domain THEN None ELSE StripSuffix(name, domain)
         IN  IF name # domain /\ ~EndsWithDot(name, domain)
             THEN ApplyOverrides(recs, Tail(additional), domain)
             ELSE IF has_rec(recs, qname, value)
             THEN ApplyOverrides(recs, Tail(additional), domain)
             ELSE ApplyOverrides(
                      recs \o (IF value.bare THEN <<Rec(qname, "A", <<value.str>>)>>
                                             ELSE DictRecords(qname, value.items)),
                      Tail(additional), domain)

\* the defaults appended whatever the records hold already
DefaultsUnchecked(recs, e) ==
    recs \o <<Rec(None, "A", <<e.PUBLIC_IP>>), Rec(<<"www">>, "A", <<e.PUBLIC_IP>>)>>

\* lines 185-188
Defaults(recs, e) ==
    LET r1 == IF ~has_rec(recs, None, Str("A"))
              THEN recs \o <<Rec(None, "A", <<e.PUBLIC_IP>>)>> ELSE recs
        r2 == IF e.PUBLIC_IPV6 # "" /\ ~has_rec(r1, None, Str("AAAA"))
              THEN r1 \o <<Rec(None, "AAAA", <<e.PUBLIC_IPV6>>)>> ELSE r1
        r3 == IF ~has_rec(r2, <<"www">>, Str("A"))
              THEN r2 \o <<Rec(<<"www">>, "A", <<e.PUBLIC_IP>>)>> ELSE r2
        r4 == IF e.PUBLIC_IPV6 # "" /\ ~has_rec(r3, <<"www">>, Str("AAAA"))
              THEN r3 \o <<Rec(<<"www">>, "AAAA", <<e.PUBLIC_IPV6>>)>> ELSE r3
    IN  r4

\* lines 190-199
Dkim(recs, e) ==
    IF e.dkim
    THEN recs \o <<Rec(<<"mail", "_domainkey">>, "TXT", <<"( v=DKIM1; p=... )">>),
                   Rec(<<"_dmarc">>, "TXT", <<"\"v=DMARC1; p=quarantine\"">>)>>
    ELSE recs

RECURSIVE build_zone(_, _, _, _, _)
RECURSIVE SubdomainRecords(_, _, _)
RECURSIVE SubdomainRecordsWithOverrides(_, _, _)

\* the nested call of line 147 given the records of custom.yaml
SubdomainRecordsWithOverrides(subdomains, domain, e) ==
    IF subdomains = <<>> THEN <<>>
    ELSE LET child == build_zone(Head(subdomains), <<>>, additional_records, e, FALSE)
         IN  [i \in DOMAIN child |->
                 Requalify(child[i], StripSuffix(Head(subdomains), domain))]
             \o SubdomainRecordsWithOverrides(Tail(subdomains), domain, e)

\* lines 145-152
SubdomainRecords(subdomains, domain, e) ==
    IF subdomains = <<>> THEN <<>>
    ELSE LET child == build_zone(Head(subdomains), <<>>, <<>>, e, FALSE)
         IN  [i \in DOMAIN child |->
                 Requalify(child[i], StripSuffix(Head(subdomains), domain))]
             \o SubdomainRecords(Tail(subdomains), domain, e)

\* ns1, ns2 and the TLSA record whatever the domain
PrimaryRecordsAnywhere(domain, e) ==
    <<Rec(<<"ns1">>, "A", <<e.PUBLIC_IP>>),
      Rec(<<"ns2">>, "A", <<e.PUBLIC_IP>>),
      Rec(<<"_25", "_tcp">>, "TLSA", build_tlsa_record(e))>>

\* lines 155-161
PrimaryRecords(domain, e) ==
    IF domain = e.PRIMARY_HOSTNAME
    THEN <<Rec(<<"ns1">>, "A", <<e.PUBLIC_IP>>),
           Rec(<<"ns2">>, "A", <<e.PUBLIC_IP>>),
           Rec(<<"_25", "_tcp">>, "TLSA", build_tlsa_record(e))>>
    ELSE <<>>

\* lines 129-161: the records that do not depend on custom.yaml
RequiredRecords(domain, subdomains, e, with_ns) ==
    LET ns   == IF with_ns
                THEN <<Rec(None, "NS", <<"ns1.">> \o e.PRIMARY_HOSTNAME),
                       Rec(None, "NS", <<"ns2.">> \o e.PRIMARY_HOSTNAME)>>
                ELSE <<>>
        mail == <<Rec(None, "MX", <<"10 ">> \o e.PRIMARY_HOSTNAME),
                  Rec(None, "TXT", <<"\"v=spf1 mx -all\"">>)>>
        subs == SubdomainRecords(subdomains, domain, e)
        prim == PrimaryRecords(domain, e)
    IN  ns \o mail \o subs \o prim

\* lines 129-199: the records in the order in which they are appended
AppendedRecords(domain, subdomains, additional, e, with_ns) ==
    Dkim(Defaults(ApplyOverrides(RequiredRecords(domain, subdomains, e, with_ns),
                                 additional, domain), e), e) \o <<>>

build_zone(domain, subdomains, additional, e, with_ns) ==
    SortRecords(AppendedRecords(domain, subdomains, additional, e, with_ns))

(***************************************************************************)
(* Clock and calendar.  now counts half days from 2024-06-01 00:00, so a   *)
(* run can happen at midnight or at noon of a day.                         *)
(***************************************************************************)
Today == now \div 2

\* strftime("%Y%m%d") of the day with the given index, as a number
YMD(day) ==
    IF day < 30 THEN 20240601 + day
    ELSE IF day < 61 THEN 20240701 + (day - 30)
    ELSE IF day < 92 THEN 20240801 + (day - 61)
    ELSE 20240901 + (day - 92)

\* strptime(s, "%Y%m%d%H%M%S") of a midnight time stamp, in half days
ParseTime(ymd) ==
    2 * (IF ymd < 20240701 THEN ymd - 20240601
         ELSE IF ymd < 20240801 THEN 30 + (ymd - 20240701)
         ELSE IF ymd < 20240901 THEN 61 + (ymd - 20240801)
         ELSE 92 + (ymd - 20240901))

\* str(n) as its sequence of decimal digits
RECURSIVE Digits(_)
Digits(n) == IF n < 10 THEN <<n>> ELSE Digits(n \div 10) \o <<n % 10>>

\* Python's str < str on strings of decimal digits
RECURSIVE DigitsLess(_, _)
DigitsLess(a, b) ==
    IF b = <<>> THEN FALSE
    ELSE IF a = <<>> THEN TRUE
    ELSE IF Head(a) = Head(b) THEN DigitsLess(Tail(a), Tail(b))
    ELSE Head(a) < Head(b)

\* a > b of two serials held as strings
StrGT(a, b) == DigitsLess(Digits(b), Digits(a))

\* a >= b of two serials held as strings (line 315)
StrGE(a, b) == ~DigitsLess(Digits(a), Digits(b))

\* min() of a non-empty list of time stamps of equal width
MinOf(s) == CHOOSE x \in SeqToSet(s) : \A y \in SeqToSet(s) : x <= y

ForceDays == 3
SignDays  == 30

(***************************************************************************)
(* Zone renderer and change detector.                                      *)
(***************************************************************************)
\* The text "__SERIAL__" in the place of the serial number.
SERIAL_PLACEHOLDER == 0

\* lines 258-262: the owner is written only if the qname is truthy
RenderLine(rec) ==
    <<IF rec.qname # <<>> THEN rec.qname ELSE <<>>, "\tIN\t", rec.rtype, "\t", rec.value>>

\* lines 241-262: the zone text with the serial still to be substituted
RenderZone(domain, recs, e) ==
    [origin  |-> domain,
     primary |-> e.PRIMARY_HOSTNAME,
     serial  |-> SERIAL_PLACEHOLDER,
     lines   |-> [i \in DOMAIN recs |-> RenderLine(recs[i])] \o <<>>]

\* only a missing signed file forces the bump
ForceBumpIfUnsigned(zonefile, t) == zonefile \notin DOMAIN signed_fs

\* lines 269-290; t is datetime.datetime.now()
force_bump(zonefile, t) ==
    IF zonefile \notin DOMAIN signed_fs THEN TRUE
    ELSE LET expiration_times == signed_fs[zonefile].rrsig_soa
         IN  IF Len(expiration_times) = 0 THEN TRUE
             ELSE ParseTime(MinOf(expiration_times)) - t < 2 * ForceDays

\* lines 293-316: the serial to write, given the serial of the existing file
NextSerial(existing_serial) ==
    LET serial == YMD(Today) * 100
    IN  IF StrGE(existing_serial, serial) THEN existing_serial + 1 ELSE serial

\* write_nsd_zone: whether the file is written, and the text written
write_nsd_zone(domain, zonefile, recs, e) ==
    LET zone == RenderZone(domain, recs, e)
    IN  IF zonefile \in DOMAIN zone_fs
        THEN LET existing_zone == [zone_fs[zonefile] EXCEPT !.serial = SERIAL_PLACEHOLDER]
             IN  IF zone = existing_zone /\ ~force_bump(zonefile, now)
                 THEN [changed |-> FALSE, text |-> zone_fs[zonefile]]
                 ELSE [changed |-> TRUE,
                       text |-> [zone EXCEPT !.serial = NextSerial(zone_fs[zonefile].serial)]]
        ELSE [changed |-> TRUE, text |-> [zone EXCEPT !.serial = YMD(Today) * 100]]

\* a function with x mapped to v (writing a file)
Put(f, x, v) == [y \in DOMAIN f \cup {x} |-> IF y = x THEN v ELSE f[y]]

(***************************************************************************)
(* Signing lifecycle.                                                      *)
(***************************************************************************)
\* The files sign_zone copies, in the order of its two loops (lines 385, 390).
KeySteps == << <<"KSK", ".private">>, <<"KSK", ".key">>,
               <<"ZSK", ".private">>, <<"ZSK", ".key">> >>

\* dnssec.conf: the keys keys.conf names; dnssec.files: the generic key files.
DnssecGood == [conf |-> {"KSK", "ZSK"}, files |-> SeqToSet(KeySteps)]

\* lines 386 and 391: the copy of KeySteps[k] goes through
KeyStepOk(k) == KeySteps[k][1] \in dnssec.conf /\ KeySteps[k] \in dnssec.files

\* What the external tools of one sign_zone call do.
ToolOutcomes == {"ok", "signer_fails", "signer_truncates", "key2ds_fails",
                 "ds_write_fails"}

\* sign_zone, lines 372-435: the files after the call and whether it returned
\* (ok) or raised.
sign_zone(domain, zonefile, tool) ==
    LET bad     == {k \in DOMAIN KeySteps : ~KeyStepOk(k)}
        copied  == IF bad = {} THEN Len(KeySteps)
                   ELSE (CHOOSE k \in bad : \A j \in bad : k <= j) - 1
        files_to_kill == [k \in 1..copied |->
                            <<KeySteps[k][1], domain, KeySteps[k][2]>>] \o <<>>
        created == SeqToSet(files_to_kill)
        expiry_date == YMD(Today + SignDays)
        signedfile == [src |-> zone_fs[zonefile], rrsig_soa |-> <<expiry_date>>]
        truncated  == [src |-> zone_fs[zonefile], rrsig_soa |-> <<>>]
        dsrecord   == <<"DS", domain>>
    IN  IF bad # {} \/ tool = "signer_fails"
        THEN [ok |-> FALSE, files_to_kill |-> files_to_kill,
              tmp |-> tmp_fs \cup created, signed |-> signed_fs, ds |-> ds_fs]
        ELSE IF tool = "signer_truncates"
        THEN [ok |-> FALSE, files_to_kill |-> files_to_kill,
              tmp |-> tmp_fs \cup created,
              signed |-> Put(signed_fs, zonefile, truncated), ds |-> ds_fs]
        ELSE IF tool \in {"key2ds_fails", "ds_write_fails"}
        THEN [ok |-> FALSE, files_to_kill |-> files_to_kill,
              tmp |-> tmp_fs \cup created,
              signed |-> Put(signed_fs, zonefile, signedfile), ds |-> ds_fs]
        ELSE [ok |-> TRUE, files_to_kill |-> files_to_kill,
              tmp |-> (tmp_fs \cup created) \ created,
              signed |-> Put(signed_fs, zonefile, signedfile),
              ds |-> Put(ds_fs, zonefile, dsrecord)]

(***************************************************************************)
(* Server configuration.                                                   *)
(***************************************************************************)
\* lines 330-357: the text of nsd.conf
RenderConf(zfs, e) == [ip_address |-> e.hostname_I, zones |-> zfs]

\* /etc/nsd/nsd.conf as the nsd package installs it: no addresses, no zones
PackagedConf == [ip_address |-> <<>>, zones |-> <<>>]

\* write_nsd_conf, lines 359-368; nsd_conf is <<>> when the file does not exist
write_nsd_conf(zfs, e) ==
    IF nsd_conf = <<>> THEN [raised |-> TRUE, written |-> FALSE, conf |-> nsd_conf]
    ELSE IF nsd_conf[1] = RenderConf(zfs, e)
    THEN [raised |-> FALSE, written |-> FALSE, conf |-> nsd_conf]
    ELSE [raised |-> FALSE, written |-> TRUE, conf |-> <<RenderConf(zfs, e)>>]

(***************************************************************************)
(* Orchestrator: do_dns_update, one action per step of the run, and the    *)
(* environment between runs.                                               *)
(***************************************************************************)
MaxRuns == 3

\* The domain sets and key set-ups of an appliance, and the custom records and
\* clock values of its runs.
MailDomainSets == {{<<"a", "example">>, <<"sub", "a", "example">>},
                   {<<"example">>, <<"www", "box", "example">>},
                   {<<"a", "justtesting", "email">>, <<"b", "justtesting", "email">>}}

CustomSets == {<<>>,
               <<[name |-> <<"a", "example">>, value |-> Str("198.51.100.9")],
                 [name |-> <<"example">>, value |-> Str("198.51.100.9")]>>}

DnssecSets == {DnssecGood,
               [conf |-> {"KSK"}, files |-> SeqToSet(KeySteps)],
               [conf |-> {"KSK", "ZSK"}, files |-> SeqToSet(KeySteps) \ {<<"ZSK", ".key">>}]}

RunClock == {0, 55}

TheEnv == [PRIMARY_HOSTNAME |-> PRIMARY_HOSTNAME, PUBLIC_IP |-> "203.0.113.1",
           PUBLIC_IPV6 |-> "", dkim |-> FALSE, cert |-> "cert1",
           hostname_I |-> <<"192.0.2.10">>]

NoRun == [outcome |-> "none", same_inputs |-> FALSE, fresh |-> FALSE,
          written |-> {}, failed_posts |-> {}, signed |-> {}, conf_written |-> FALSE,
          nsd_restarted |-> FALSE, dkim_restarted |-> FALSE, ret |-> <<>>]

\* hist.run is the current or most recent run, hist.prev the outcome of the run
\* before it, hist.unserved the zone files that were written, or whose signed
\* artifact was written, since nsd was last restarted.  run.same_inputs: the run has the inputs of the run before it;
\* run.fresh: when it began, every zone had a signed artifact whose SOA signature
\* was not within ForceDays of its expiry.  run.failed_posts: the zone files whose
\* notification failed in the run.
Init ==
    /\ mail_domains \in MailDomainSets
    /\ additional_records = <<>>
    /\ env = TheEnv
    /\ now = 0
    /\ dnssec \in DnssecSets
    /\ zone_fs = <<>> /\ signed_fs = <<>> /\ ds_fs = <<>>
    /\ nsd_conf = <<PackagedConf>>
    /\ tmp_fs = {}
    /\ pc = "idle"
    /\ zonefiles = <<>> /\ idx = 0 /\ updated_domains = <<>> /\ records = <<>>
    /\ call = [op |-> "none"]
    /\ hist = [runs |-> 0, prev |-> "none", run |-> NoRun, unserved |-> {}]

inputs == <<mail_domains, additional_records, env, now, dnssec>>
files  == <<zone_fs, signed_fs, ds_fs, nsd_conf, tmp_fs>>
locals == <<zonefiles, idx, updated_domains, records>>

NextZone(i) == IF i > Len(zonefiles) THEN "conf" ELSE "zone"

\* The run has returned or raised: its locals are gone.
EndOfRun ==
    /\ pc' = "idle"
    /\ zonefiles' = <<>> /\ idx' = 0 /\ updated_domains' = <<>> /\ records' = <<>>

\* lines 50-63.  The run finds the clock where it now stands and custom.yaml as
\* last edited.
StartRun ==
    /\ pc = "idle"
    /\ hist.runs < MaxRuns
    /\ \E zfs \in {get_dns_zones(iter, env) :
                      iter \in Orders(get_dns_domains(mail_domains, env))} :
            \E t \in {u \in RunClock : u >= now}, c \in CustomSets :
              /\ now' = t
              /\ additional_records' = c
              /\ zonefiles' = zfs
              /\ hist' = [runs |-> hist.runs + 1, prev |-> hist.run.outcome,
                          unserved |-> hist.unserved,
                          run |-> [NoRun EXCEPT
                                     !.outcome = "running",
                                     !.same_inputs = (c = additional_records),
                                     !.fresh = \A i \in DOMAIN zfs :
                                                 ~force_bump(zfs[i].zonefile, t)]]
    /\ idx' = 1 /\ updated_domains' = <<>> /\ records' = <<>>
    /\ pc' = "zone"
    /\ UNCHANGED <<mail_domains, env, dnssec, files, call>>

\* the zone goes on to be signed whether or not its file was written
WriteZoneAlwaysSigns ==
    /\ pc = "zone"
    /\ LET domain   == zonefiles[idx].domain
           zonefile == zonefiles[idx].zonefile
           domains  == get_dns_domains(mail_domains, env)
       IN  \E recs \in {build_zone(domain, subdomains, additional_records, env, TRUE) :
                           subdomains \in Orders({d \in domains : EndsWithDot(d, domain)})} :
             LET w == write_nsd_zone(domain, zonefile, recs, env)
             IN  /\ records' = recs
                 /\ call' = call
                 /\ zone_fs' = IF w.changed THEN Put(zone_fs, zonefile, w.text) ELSE zone_fs
                 /\ hist' = IF w.changed
                            THEN [hist EXCEPT !.run.written = @ \cup {zonefile}]
                            ELSE hist
                 /\ pc' = "notify"
                 /\ idx' = idx
    /\ UNCHANGED <<inputs, signed_fs, ds_fs, nsd_conf, tmp_fs, zonefiles, updated_domains>>

\* lines 64-73: build the zone and write its file if it changed
WriteZone ==
    /\ pc = "zone"
    /\ LET domain   == zonefiles[idx].domain
           zonefile == zonefiles[idx].zonefile
           domains  == get_dns_domains(mail_domains, env)
       IN  \E recs \in {build_zone(domain, subdomains, additional_records, env, TRUE) :
                           subdomains \in Orders({d \in domains : EndsWithDot(d, domain)})} :
             LET w == write_nsd_zone(domain, zonefile, recs, env)
             IN  /\ records' = recs
                 /\ call' = call
                 /\ IF w.changed
                    THEN /\ zone_fs' = Put(zone_fs, zonefile, w.text)
                         /\ hist' = [hist EXCEPT !.run.written = @ \cup {zonefile},
                                                 !.unserved = @ \cup {zonefile}]
                         /\ pc' = "notify"
                         /\ idx' = idx
                    ELSE /\ zone_fs' = zone_fs
                         /\ hist' = hist
                         /\ idx' = idx + 1
                         /\ pc' = NextZone(idx + 1)
    /\ UNCHANGED <<inputs, signed_fs, ds_fs, nsd_conf, tmp_fs, zonefiles, updated_domains>>

\* a failed notification ends the run
NotifyAborts ==
    /\ pc = "notify"
    /\ LET domain == zonefiles[idx].domain
       IN  \E posted \in IF EndsWithDot(domain, <<"justtesting", "email">>)
                          THEN {"posted", "failed"} ELSE {"skipped"} :
             IF posted = "failed"
             THEN /\ hist' = [hist EXCEPT !.run.failed_posts = @ \cup {zonefiles[idx].zonefile},
                                          !.run.outcome = "aborted"]
                  /\ EndOfRun
             ELSE /\ hist' = hist
                  /\ updated_domains' = Append(updated_domains, zonefiles[idx].domain)
                  /\ pc' = "sign"
                  /\ UNCHANGED <<zonefiles, idx, records>>
    /\ UNCHANGED <<inputs, files, call>>

\* lines 75-84: the notification, whose failure is swallowed, and the bookkeeping
Notify ==
    /\ pc = "notify"
    /\ LET domain == zonefiles[idx].domain
       IN  \E posted \in IF EndsWithDot(domain, <<"justtesting", "email">>)
                          THEN {"posted", "failed"} ELSE {"skipped"} :
             hist' = IF posted = "failed"
                     THEN [hist EXCEPT !.run.failed_posts = @ \cup {zonefiles[idx].zonefile}]
                     ELSE hist
    /\ updated_domains' = Append(updated_domains, zonefiles[idx].domain)
    /\ pc' = "sign"
    /\ UNCHANGED <<inputs, files, zonefiles, idx, records, call>>

\* a zone whose signing fails is skipped and the run goes on
SignZoneSkipsFailure ==
    /\ pc = "sign"
    /\ \E tool \in ToolOutcomes :
          LET zf == zonefiles[idx]
              r  == sign_zone(zf.domain, zf.zonefile, tool)
          IN  /\ tmp_fs' = r.tmp /\ signed_fs' = r.signed /\ ds_fs' = r.ds
              /\ call' = [op |-> "sign_zone", zonefile |-> zf.zonefile, ok |-> r.ok,
                          files_to_kill |-> r.files_to_kill, run |-> hist.runs,
                          later |-> {zonefiles[j].zonefile : j \in idx + 1..Len(zonefiles)}]
              /\ hist' = IF r.ok THEN [hist EXCEPT !.run.signed = @ \cup {zf.zonefile}]
                                 ELSE hist
              /\ idx' = idx + 1
              /\ pc' = NextZone(idx + 1)
              /\ UNCHANGED <<zonefiles, updated_domains, records>>
    /\ UNCHANGED <<inputs, zone_fs, nsd_conf>>

\* line 95: sign the zone; an exception of sign_zone ends the run
SignZone ==
    /\ pc = "sign"
    /\ \E tool \in ToolOutcomes :
          LET zf == zonefiles[idx]
              r  == sign_zone(zf.domain, zf.zonefile, tool)
          IN  /\ tmp_fs' = r.tmp /\ signed_fs' = r.signed /\ ds_fs' = r.ds
              /\ call' = [op |-> "sign_zone", zonefile |-> zf.zonefile, ok |-> r.ok,
                          files_to_kill |-> r.files_to_kill, run |-> hist.runs,
                          later |-> {zonefiles[j].zonefile : j \in idx + 1..Len(zonefiles)}]
              /\ IF r.ok
                 THEN /\ hist' = [hist EXCEPT !.run.signed = @ \cup {zf.zonefile},
                                              !.unserved = @ \cup {zf.zonefile}]
                      /\ idx' = idx + 1
                      /\ pc' = NextZone(idx + 1)
                      /\ UNCHANGED <<zonefiles, updated_domains, records>>
                 ELSE /\ hist' = [hist EXCEPT !.run.outcome = "aborted"]
                      /\ EndOfRun
    /\ UNCHANGED <<inputs, zone_fs, nsd_conf>>

\* lines 100-108: name the signed files and write nsd.conf
WriteConf ==
    /\ pc = "conf"
    /\ LET zfs == [i \in DOMAIN zonefiles |->
                     [zonefiles[i] EXCEPT !.zonefile = @ \o <<".signed">>]] \o <<>>
           w   == write_nsd_conf(zfs, env)
       IN  /\ nsd_conf' = w.conf
           /\ call' = call
           /\ hist' = [hist EXCEPT !.run.conf_written = w.written,
                                   !.run.outcome = IF w.raised THEN "aborted" ELSE @]
           /\ IF w.raised
              THEN EndOfRun
              ELSE /\ zonefiles' = zfs
                   /\ updated_domains' = IF w.written /\ Len(updated_domains) = 0
                                          THEN <<<<"DNS configuration">>>>
                                          ELSE updated_domains
                   /\ pc' = "kick"
                   /\ UNCHANGED <<idx, records>>
    /\ UNCHANGED <<inputs, zone_fs, signed_fs, ds_fs, tmp_fs>>

\* nsd is restarted in every run
KickNsdAlways ==
    /\ pc = "kick"
    /\ hist' = [hist EXCEPT !.run.nsd_restarted = TRUE]
    /\ pc' = "dkim"
    /\ UNCHANGED <<inputs, files, locals, call>>

\* lines 110-112: restart nsd if anything was updated
KickNsd ==
    /\ pc = "kick"
    /\ hist' = [hist EXCEPT !.run.nsd_restarted = Len(updated_domains) > 0,
                            !.unserved = IF Len(updated_domains) > 0 THEN {} ELSE @]
    /\ pc' = "dkim"
    /\ UNCHANGED <<inputs, files, locals, call>>

\* lines 114-124: restart opendkim and return the summary
KickDkimAndReturn ==
    /\ pc = "dkim"
    /\ hist' = [hist EXCEPT !.run.dkim_restarted = TRUE,
                            !.run.outcome = "completed",
                            !.run.ret = IF Len(updated_domains) = 0 THEN <<>>
                                        ELSE <<<<"updated DNS: ">>>> \o updated_domains]
    /\ EndOfRun
    /\ UNCHANGED <<inputs, files, call>>

\* The process is killed between two steps of a run.
Kill ==
    /\ pc # "idle"
    /\ hist' = [hist EXCEPT !.run.outcome = "aborted"]
    /\ EndOfRun
    /\ UNCHANGED <<inputs, files, call>>

Next ==
    \/ StartRun \/ WriteZone \/ Notify \/ SignZone \/ WriteConf \/ KickNsd
    \/ KickDkimAndReturn \/ Kill

Spec == Init /\ [][Next]_vars

\* C2: a run that follows a completed run with the same inputs, and begins with
\* every zone signed and no signature within 3 days of its expiry, writes no zone
\* file, signs no zone, does not rewrite nsd.conf, does not restart nsd, and
\* returns the empty summary.
C2_Idempotent ==
    hist.prev = "completed" /\ hist.run.same_inputs /\ hist.run.fresh =>
        /\ hist.run.written = {}
        /\ hist.run.signed = {}
        /\ ~hist.run.conf_written
        /\ ~hist.run.nsd_restarted
        /\ hist.run.outcome = "completed" => hist.run.ret = <<>>

\* C12: in every completed run nsd is restarted if and only if a zone file or
\* nsd.conf was written in the run, opendkim is restarted, and the summary is
\* empty exactly when nsd was not restarted.
C12_RestartPolicy ==
    hist.run.outcome = "completed" =>
        /\ hist.run.nsd_restarted <=> (hist.run.written # {} \/ hist.run.conf_written)
        /\ hist.run.dkim_restarted
        /\ hist.run.ret = <<>> <=> ~hist.run.nsd_restarted

\* a completed run that wrote nothing and restarted opendkim only
C12_Witness ==
    /\ hist.run.outcome = "completed"
    /\ hist.run.written = {} /\ ~hist.run.conf_written
    /\ ~hist.run.nsd_restarted /\ hist.run.dkim_restarted
    /\ hist.run.ret = <<>>

\* d is x or a dot-boundary ancestor of x; x is a strict subdomain of d
IsStrictSubdomain(x, d) ==
    /\ Len(x) > Len(d)
    /\ \A k \in 1..Len(d) : x[Len(x) - Len(d) + k] = d[k]

Covers(d, x) == x = d \/ IsStrictSubdomain(x, d)

InUse == mail_domains \cup {env.PRIMARY_HOSTNAME}

\* the zones the appliance manages: the in-use domains with no in-use ancestor
ManagedZones ==
    {d \in InUse : \A x \in InUse : ~IsStrictSubdomain(d, x)}

\* C13: whenever the most recent run completed, nsd.conf has one stanza per
\* managed zone, every stanza names a .signed zone file, and the signed artifact
\* and the DS file of that zone exist.
C13_ConfNamesSignedZones ==
    hist.run.outcome = "completed" =>
        /\ nsd_conf # <<>>
        /\ {nsd_conf[1].zones[k].domain : k \in DOMAIN nsd_conf[1].zones} = ManagedZones
        /\ \A k \in DOMAIN nsd_conf[1].zones :
              LET named == nsd_conf[1].zones[k].zonefile
                  zf    == SubSeq(named, 1, Len(named) - 1)
              IN  /\ named[Len(named)] = ".signed"
                  /\ zf \in DOMAIN signed_fs
                  /\ zf \in DOMAIN ds_fs

\* the run in progress or just ended is the one whose sign_zone call raised
SignFailed == call.op = "sign_zone" /\ ~call.ok /\ call.run = hist.runs

\* C14: when sign_zone raises for a zone the run ends there: no zone later in the
\* list is written or signed in the run, the failing zone is not recorded as
\* signed, nsd.conf is not rewritten, and neither nsd nor opendkim is restarted.
C14_SignFailureAborts ==
    SignFailed =>
        /\ pc = "idle"
        /\ hist.run.outcome = "aborted"
        /\ hist.run.written \cap call.later = {}
        /\ hist.run.signed \cap (call.later \cup {call.zonefile}) = {}
        /\ ~hist.run.conf_written
        /\ ~hist.run.nsd_restarted
        /\ ~hist.run.dkim_restarted

\* signing failed for a zone that is followed by another zone in need of a write
C14_Witness ==
    /\ SignFailed
    /\ \E zf \in call.later : zf \notin DOMAIN zone_fs

\* C15: a failed notification changes nothing but the record of the failure: the
\* zone is recorded as updated and goes on to be signed, and a run that completes
\* after a failed notification has written and signed that zone, has a zone file
\* for every managed zone, restarted nsd and opendkim and returned a summary.
C15_NotifyFailureSwallowed ==
    /\ [](hist.run.failed_posts # {} /\ hist.run.outcome = "completed" =>
             /\ hist.run.failed_posts \subseteq hist.run.written
             /\ hist.run.failed_posts \subseteq hist.run.signed
             /\ \A d \in ManagedZones : safe_domain_name(d) \o <<".txt">> \in DOMAIN zone_fs
             /\ hist.run.nsd_restarted /\ hist.run.dkim_restarted
             /\ hist.run.ret # <<>>)
    /\ [][pc = "notify" /\ hist'.run.failed_posts # hist.run.failed_posts =>
             /\ pc' = "sign"
             /\ updated_domains' = Append(updated_domains, zonefiles[idx].domain)
             /\ hist' = [hist EXCEPT !.run.failed_posts = @ \cup {zonefiles[idx].zonefile}]
             /\ UNCHANGED <<inputs, files, zonefiles, idx, records, call>>]_vars

\* a run completed in which the notification failed for the first justtesting.email
\* zone and the zone after it was written and signed as well
C15_Witness ==
    /\ hist.run.outcome = "completed"
    /\ hist.run.failed_posts = {safe_domain_name(<<"a", "justtesting", "email">>) \o <<".txt">>}
    /\ safe_domain_name(<<"b", "justtesting", "email">>) \o <<".txt">> \in hist.run.signed

\* C20: within a run sign_zone is called for a zone only after write_nsd_zone wrote
\* that zone's file in the run, with a serial above the serial of the zone file the
\* existing signed artifact was made from, and every zone written is signed: a
\* zone reported unchanged is never signed.
C20_SignIffChanged ==
    /\ hist.run.signed \subseteq hist.run.written
    /\ pc = "sign" =>
          LET zf == zonefiles[idx].zonefile
          IN  /\ zf \in hist.run.written \ hist.run.signed
              /\ zf \in DOMAIN signed_fs => signed_fs[zf].src.serial < zone_fs[zf].serial
    /\ pc \in {"zone", "conf", "kick", "dkim"} \/ hist.run.outcome = "completed"
          => hist.run.signed = hist.run.written

\* a zone that has a signed artifact is about to be signed again
C20_Witness ==
    /\ pc = "sign"
    /\ zonefiles[idx].zonefile \in DOMAIN signed_fs
    /\ zonefiles[idx].zonefile \in hist.run.written

\* C21: once a run with the inputs of the run before it has completed, nsd has
\* been restarted since the last write of every zone file and signed artifact.
C21_WritesAreServed ==
    hist.run.outcome = "completed" /\ hist.run.same_inputs => hist.unserved = {}

\* C7: when a call of sign_zone has ended, by returning or by raising, none of the
\* temporary key files it created is left.
C7_TempKeysDeleted ==
    call.op = "sign_zone" => SeqToSet(call.files_to_kill) \cap tmp_fs = {}

\* C8: after an aborted run, one completed run with the same inputs leaves every
\* zone with a signed artifact made from the zone file that is on disk.
C8_RecoveredByRerun ==
    hist.prev = "aborted" /\ hist.run.outcome = "completed" /\ hist.run.same_inputs =>
        \A zf \in DOMAIN zone_fs :
            /\ zf \in DOMAIN signed_fs
            /\ signed_fs[zf].src = zone_fs[zf]

(***************************************************************************)
(* Zone apex selection on its own: get_dns_zones for every small set of    *)
(* mail domains and every order in which the set may be iterated.          *)
(***************************************************************************)
MaxMailDomains == 3

NoHist == [runs |-> 0, prev |-> "none", run |-> NoRun, unserved |-> {}]

ZonesInit ==
    /\ mail_domains \in {m \in SUBSET DomainPool : Cardinality(m) <= MaxMailDomains}
    /\ additional_records = <<>> /\ env = TheEnv /\ now = 0 /\ dnssec = DnssecGood
    /\ zone_fs = <<>> /\ signed_fs = <<>> /\ ds_fs = <<>>
    /\ nsd_conf = <<PackagedConf>> /\ tmp_fs = {}
    /\ pc = "idle" /\ zonefiles = <<>> /\ idx = 0 /\ updated_domains = <<>>
    /\ records = <<>>
    /\ call = [op |-> "none"]
    /\ hist = NoHist

GetDnsZones ==
    /\ \E iter \in Orders(get_dns_domains(mail_domains, env)) :
          /\ zonefiles' = get_dns_zones(iter, env)
          /\ call' = [op |-> "get_dns_zones", iter |-> iter]
    /\ UNCHANGED <<inputs, files, pc, idx, updated_domains, records, hist>>

SpecZones == ZonesInit /\ [][GetDnsZones]_vars

Apexes == {zonefiles[i].domain : i \in DOMAIN zonefiles}

Returned == call.op = "get_dns_zones"

\* C1: no apex returned by get_dns_zones is a strict subdomain of another returned
\* apex, and with a.example, b.example and sub.a.example in use, sub.a.example
\* is not a zone of its own.
C1_NoNestedApex ==
    Returned =>
        /\ \A x \in Apexes : \A d \in Apexes : ~IsStrictSubdomain(x, d)
        /\ {<<"a", "example">>, <<"b", "example">>, <<"sub", "a", "example">>} \subseteq InUse
             => <<"sub", "a", "example">> \notin Apexes

C1_Witness ==
    /\ Returned
    /\ {<<"a", "example">>, <<"b", "example">>, <<"sub", "a", "example">>} \subseteq InUse
    /\ call.iter[1] = <<"sub", "a", "example">>
    /\ {<<"a", "example">>, <<"b", "example">>} \subseteq Apexes
    /\ <<"sub", "a", "example">> \notin Apexes

\* C9: every in-use domain (the primary hostname included) is equal to, or a strict
\* subdomain of, exactly one returned apex, and every returned apex is in use.
C9_Coverage ==
    Returned =>
        /\ \A x \in InUse : Cardinality({d \in Apexes : Covers(d, x)}) = 1
        /\ Apexes \subseteq InUse
        /\ Len(zonefiles) = Cardinality(Apexes)

C9_Witness ==
    /\ Returned
    /\ InUse = {<<"box", "example">>, <<"b", "example">>, <<"sub", "example">>,
                <<"www", "b", "example">>}
    /\ Apexes = {<<"box", "example">>, <<"b", "example">>, <<"sub", "example">>}

(***************************************************************************)
(* The record builder on its own: build_zone for small argument sets.      *)
(***************************************************************************)
MaxSubdomains == 2
MaxOverrides  == 1

BuildApexes == {<<"example">>, <<"box", "example">>}

BuildEnvs == {e \in Envs : e.dkim = (e.PUBLIC_IPV6 # "")}

\* the sequences of at most n different elements of S
RECURSIVE SeqsUpTo(_, _)
SeqsUpTo(S, n) ==
    IF n = 0 THEN {<<>>}
    ELSE LET shorter == SeqsUpTo(S, n - 1)
         IN  shorter \cup {Append(q, x) : q \in {r \in shorter : Len(r) = n - 1},
                                          x \in S}

Distinct(q) == \A i \in DOMAIN q : \A j \in DOMAIN q : i # j => q[i] # q[j]

SubdomainLists(domain) ==
    {q \in SeqsUpTo({d \in DomainPool \ {<<"sub", "a", "example">>, <<"a", "example">>,
                                           <<"sub", "example">>} :
                        EndsWithDot(d, domain)}, MaxSubdomains) : Distinct(q)}

OverrideNames == {<<"example">>, <<"www", "example">>, <<"box", "example">>}

OverrideValues == {Str("198.51.100.9"),
                   Dict(<< <<"A", "198.51.100.9">>, <<"TXT", "hello">> >>),
                   Dict(<< <<"MX", "10 mx.other.">> >>)}

CustomDocs ==
    {q \in SeqsUpTo([name : OverrideNames, value : OverrideValues], MaxOverrides) :
        \A i \in DOMAIN q : \A j \in DOMAIN q : i # j => q[i].name # q[j].name}

BuildInit ==
    /\ mail_domains = {} /\ additional_records = <<>> /\ env = TheEnv /\ now = 0
    /\ dnssec = DnssecGood
    /\ zone_fs = <<>> /\ signed_fs = <<>> /\ ds_fs = <<>>
    /\ nsd_conf = <<PackagedConf>> /\ tmp_fs = {}
    /\ pc = "idle" /\ zonefiles = <<>> /\ idx = 0 /\ updated_domains = <<>>
    /\ records = <<>>
    /\ \E domain \in BuildApexes, e \in BuildEnvs, with_ns \in BOOLEAN :
         \E subdomains \in SubdomainLists(domain), additional \in CustomDocs :
            \* line 147 is the only call without NS records
            /\ ~with_ns => subdomains = <<>> /\ additional = <<>>
            /\ call = [op |-> "args", domain |-> domain, subdomains |-> subdomains,
                       additional |-> additional, e |-> e, with_ns |-> with_ns]
    /\ hist = NoHist

BuildZone ==
    /\ call.op = "args"
    /\ records' = build_zone(call.domain, call.subdomains, call.additional, call.e,
                             call.with_ns)
    /\ call' = [call EXCEPT !.op = "build_zone"]
    /\ UNCHANGED <<inputs, files, pc, zonefiles, idx, updated_domains, hist>>

SpecBuild == BuildInit /\ [][BuildZone]_vars

Built == call.op = "build_zone"

\* the records of recs with the given qname and type
Matching(recs, qname, rtype) ==
    SelectSeq(recs, LAMBDA r : r.qname = qname /\ r.rtype = rtype)

\* the entries of custom.yaml for the given name
EntriesFor(name) ==
    SelectSeq(call.additional, LAMBDA en : en.name = name)

\* the types and values an entry of custom.yaml asks for
Asked(en) == IF en.value.bare THEN << <<"A", en.value.str>> >> ELSE en.value.items

\* C5 (as claimed): no record of custom.yaml is added for a (qname, type) that
\* the required steps have already given a record; an MX or NS override at
\* the apex adds no second MX or NS record set entry.
C5_OverrideOnlyIfAbsent ==
    Built =>
        LET required == RequiredRecords(call.domain, call.subdomains, call.e,
                                        call.with_ns)
        IN  \A i \in DOMAIN required :
               Len(Matching(records, required[i].qname, required[i].rtype))
                 = Len(Matching(required, required[i].qname, required[i].rtype))

\* the value a record built from an item of custom.yaml holds (line 181)
OverrideValue(rtype, v) == IF rtype = "TXT" THEN <<"\"", v, "\"">> ELSE <<v>>

\* C17: for every (qname, type) of the zone that custom.yaml gives a value, also a
\* qname of a subdomain folded into the zone, the records hold a record with that
\* value, and no A or AAAA record of that (qname, type) holds the public address.
C17_OverrideWins ==
    Built =>
        \A i \in DOMAIN call.additional :
           LET en    == call.additional[i]
               qname == IF en.name = call.domain THEN None
                        ELSE SubSeq(en.name, 1, Len(en.name) - Len(call.domain))
           IN  Covers(call.domain, en.name) =>
                 \A k \in DOMAIN Asked(en) :
                    LET rtype == Asked(en)[k][1]
                        found == Matching(records, qname, rtype)
                    IN  /\ \E j \in DOMAIN found :
                              found[j].value = OverrideValue(rtype, Asked(en)[k][2])
                        /\ \A j \in DOMAIN found :
                              /\ rtype = "A" => found[j].value # <<call.e.PUBLIC_IP>>
                              /\ rtype = "AAAA" => found[j].value # <<call.e.PUBLIC_IPV6>>

\* C6: with no override for the apex or www, exactly one apex A record and exactly
\* one www A record, both with the public IPv4 address; with an override that
\* gives the apex an A value, exactly one apex A record, holding that value.
C6_ApexAndWwwA ==
    Built =>
        /\ EntriesFor(call.domain) = <<>> /\ EntriesFor(<<"www">> \o call.domain) = <<>>
             => /\ Matching(records, None, "A") = <<Rec(None, "A", <<call.e.PUBLIC_IP>>)>>
                /\ Matching(records, <<"www">>, "A")
                      = <<Rec(<<"www">>, "A", <<call.e.PUBLIC_IP>>)>>
        /\ \A i \in DOMAIN call.additional :
             LET en == call.additional[i]
             IN  \A k \in DOMAIN Asked(en) :
                    en.name = call.domain /\ Asked(en)[k][1] = "A"
                      => Matching(records, None, "A")
                           = <<Rec(None, "A", <<Asked(en)[k][2]>>)>>

C6_WitnessDefault ==
    /\ Built
    /\ call.additional = <<>>
    /\ call.subdomains = << <<"www", "example">> >>
    /\ Len(Matching(records, <<"www">>, "A")) = 1

C6_Witness ==
    /\ Built
    /\ call.domain = <<"example">>
    /\ call.additional = <<[name |-> <<"example">>,
                            value |-> Dict(<< <<"A", "198.51.100.9">>, <<"TXT", "hello">> >>)]>>
    /\ Matching(records, None, "A") = <<Rec(None, "A", <<"198.51.100.9">>)>>

IsApexRec(r) == r.qname = None

\* C10: in the list build_zone returns every apex (null-qname) record comes before
\* every other record, the apex records are in the order in which they were
\* appended, and so the lines without an owner are the first lines after the SOA.
C10_ApexFirst ==
    Built =>
        LET appended == AppendedRecords(call.domain, call.subdomains, call.additional,
                                        call.e, call.with_ns)
            napex    == Len(SelectSeq(appended, IsApexRec))
            lines    == RenderZone(call.domain, records, call.e).lines
        IN  /\ \A i \in DOMAIN records : \A j \in DOMAIN records :
                   i < j /\ IsApexRec(records[j]) => IsApexRec(records[i])
            /\ SelectSeq(records, IsApexRec) = SelectSeq(appended, IsApexRec)
            /\ Len(lines) = Len(appended)
            /\ \A i \in DOMAIN lines : (lines[i][1] = <<>>) <=> (i <= napex)

C10_Witness ==
    /\ Built
    /\ LET appended == AppendedRecords(call.domain, call.subdomains, call.additional,
                                       call.e, call.with_ns)
       IN  \E i \in DOMAIN appended : \E j \in DOMAIN appended :
              i < j /\ ~IsApexRec(appended[i]) /\ IsApexRec(appended[j])
    /\ Len(SelectSeq(records, IsApexRec)) >= 5
    /\ IsApexRec(records[1]) /\ ~IsApexRec(records[Len(records)])

(***************************************************************************)
(* The change detector on its own: write_nsd_zone and sign_zone on one     *)
(* zone file, under a clock that is set forwards and backwards.  The zone  *)
(* file may start with a serial that earlier writes of the day left.       *)
(***************************************************************************)
MaxWrites == 3

WriteClock == {0, 1, 40, 54, 55, 56}

WDomain == <<"example">>
WFile   == safe_domain_name(WDomain) \o <<".txt">>

\* the records of the zone without and with a custom A record
WriteRecords ==
    {build_zone(WDomain, <<>>, c, TheEnv, TRUE) :
        c \in {<<>>, <<[name |-> WDomain, value |-> Str("198.51.100.9")]>>}}

StoredSerials == {YMD(d) * 100 + c : d \in {0, 27}, c \in {0, 99}}

WriteInit ==
    /\ mail_domains = {WDomain} /\ additional_records = <<>> /\ env = TheEnv
    /\ now \in WriteClock
    /\ dnssec = DnssecGood
    /\ zone_fs \in {<<>>} \cup
          {Put(<<>>, WFile, [RenderZone(WDomain, build_zone(WDomain, <<>>, <<>>, TheEnv, TRUE),
                                       TheEnv) EXCEPT !.serial = n]) :
             n \in StoredSerials}
    /\ signed_fs = <<>> /\ ds_fs = <<>>
    /\ nsd_conf = <<PackagedConf>> /\ tmp_fs = {}
    /\ pc = "idle" /\ zonefiles = <<>> /\ idx = 0 /\ updated_domains = <<>>
    /\ records = <<>>
    /\ call = [op |-> "none"]
    /\ hist = NoHist

\* write_nsd_zone is called; idx counts the calls
WriteCall ==
    /\ idx < MaxWrites
    /\ \E recs \in WriteRecords :
          LET w == write_nsd_zone(WDomain, WFile, recs, env)
          IN  /\ records' = recs
              /\ zone_fs' = IF w.changed THEN Put(zone_fs, WFile, w.text) ELSE zone_fs
              /\ call' = [op |-> "write_nsd_zone", changed |-> w.changed,
                          file_before |-> zone_fs, signed_before |-> signed_fs,
                          at |-> now]
    /\ idx' = idx + 1
    /\ UNCHANGED <<inputs, signed_fs, ds_fs, nsd_conf, tmp_fs, pc, zonefiles,
                   updated_domains, hist>>

\* sign_zone is called, as do_dns_update does after a write that reported a change
SignCall ==
    /\ call.op = "write_nsd_zone" /\ call.changed
    /\ \E tool \in {"ok", "signer_fails", "signer_truncates"} :
          LET r == sign_zone(WDomain, WFile, tool)
          IN  /\ tmp_fs' = r.tmp /\ signed_fs' = r.signed /\ ds_fs' = r.ds
              /\ call' = [op |-> "sign_zone", ok |-> r.ok]
    /\ UNCHANGED <<inputs, zone_fs, nsd_conf, pc, locals, hist>>

\* the clock is set, forwards or backwards
ClockSet ==
    /\ call.op # "clock"
    /\ \E t \in WriteClock \ {now} : now' = t
    /\ call' = [op |-> "clock"]
    /\ UNCHANGED <<mail_domains, additional_records, env, dnssec, files, pc, locals, hist>>

WriteNext == WriteCall \/ SignCall \/ ClockSet

SpecWrite == WriteInit /\ [][WriteNext]_vars

Wrote == call.op = "write_nsd_zone"

\* the zone file existed before the call / its text, serial apart, is the new text
Existed  == WFile \in DOMAIN call.file_before
SameText ==
    /\ call.file_before[WFile].origin = WDomain
    /\ call.file_before[WFile].primary = env.PRIMARY_HOSTNAME
    /\ Len(call.file_before[WFile].lines) = Len(records)
    /\ \A i \in DOMAIN records :
          /\ call.file_before[WFile].lines[i][1] = records[i].qname
          /\ call.file_before[WFile].lines[i][3] = records[i].rtype
          /\ call.file_before[WFile].lines[i][5] = records[i].value

\* YYYYMMDD00 of the day of the call
DateSerial == YMD(call.at \div 2) * 100

\* C3: every serial written over an existing zone file is strictly greater, as a
\* number, than the stored serial: the date-based serial YYYYMMDD00 when that
\* exceeds the stored serial, the stored serial plus one otherwise.
C3_SerialAdvances ==
    Wrote /\ Existed /\ call.changed =>
        LET stored  == call.file_before[WFile].serial
            written == zone_fs[WFile].serial
        IN  /\ written > stored
            /\ written = IF DateSerial > stored THEN DateSerial ELSE stored + 1

C3_Witness ==
    /\ Wrote /\ Existed /\ call.changed
    /\ call.file_before[WFile].serial = 2024060199
    /\ DateSerial = 2024060100
    /\ zone_fs[WFile].serial = 2024060200

\* the day (counted from 2024-06-01) of a date written as YYYYMMDD
DayOf(ymd) == CHOOSE d \in 0..121 : YMD(d) = ymd

\* no signed artifact, no SOA signature expiry in it, or the earliest expiry
\* less than 3 days after the time of the call
ResignDue ==
    \/ WFile \notin DOMAIN call.signed_before
    \/ call.signed_before[WFile].rrsig_soa = <<>>
    \/ \E k \in DOMAIN call.signed_before[WFile].rrsig_soa :
          2 * DayOf(call.signed_before[WFile].rrsig_soa[k]) - call.at < 2 * 3

\* C4: a zone whose rendered text equals the stored file, serial apart, is rewritten
\* with a greater serial and reported changed if and only if a re-sign is due;
\* otherwise the file is left untouched and reported unchanged.
C4_ForcedResign ==
    Wrote /\ Existed /\ SameText =>
        /\ call.changed <=> ResignDue
        /\ call.changed =>
              /\ zone_fs[WFile].serial > call.file_before[WFile].serial
              /\ [zone_fs[WFile] EXCEPT !.serial = 0]
                   = [call.file_before[WFile] EXCEPT !.serial = 0]
        /\ ~call.changed => zone_fs = call.file_before

\* the signature expires in 2.5 days, the text is unchanged, the file is rewritten
C4_Witness ==
    /\ Wrote /\ Existed /\ SameText /\ call.changed
    /\ WFile \in DOMAIN call.signed_before
    /\ call.signed_before[WFile].rrsig_soa = <<20240701>>
    /\ call.at = 55

(***************************************************************************)
(* The zones of one run and their records: lines 52-67 of do_dns_update    *)
(* without the writes.  A run is planned twice with the same inputs; the   *)
(* set of domains may be iterated in another order the second time.        *)
(***************************************************************************)
MaxPlanDomains == 3
MaxPlans == 2

PlanPool == {<<"example">>, <<"a", "example">>, <<"sub", "a", "example">>,
             <<"b", "example">>, <<"www", "b", "example">>,
             <<"www", "box", "example">>, <<"example", "org">>}

\* custom.yaml: missing, or with an entry for a.example, one for www.b.example
\* and one for a name of a domain the box does not serve
PlanCustoms ==
    {<<>>,
     <<[name |-> <<"a", "example">>, value |-> Str("198.51.100.9")],
       [name |-> <<"www", "b", "example">>,
        value |-> Dict(<< <<"A", "198.51.100.7">>, <<"TXT", "hello">> >>)],
       [name |-> <<"other", "org">>, value |-> Str("198.51.100.8")]>>}

PlanInit ==
    /\ mail_domains \in {m \in SUBSET PlanPool : Cardinality(m) <= MaxPlanDomains}
    /\ additional_records \in PlanCustoms /\ env = TheEnv /\ now = 0 /\ dnssec = DnssecGood
    /\ zone_fs = <<>> /\ signed_fs = <<>> /\ ds_fs = <<>>
    /\ nsd_conf = <<PackagedConf>> /\ tmp_fs = {}
    /\ pc = "idle" /\ zonefiles = <<>> /\ idx = 0 /\ updated_domains = <<>>
    /\ records = <<>>
    /\ call = [op |-> "none"]
    /\ hist = NoHist

\* the record lists build_zone may return for a zone, one per iteration order (line 66)
ZoneRecordLists(domain) ==
    LET domains == get_dns_domains(mail_domains, env)
    IN  {build_zone(domain, subdomains, additional_records, env, TRUE) :
            subdomains \in Orders({d \in domains : EndsWithDot(d, domain)})}

\* lines 52-67: records[i] is the record list of zonefiles[i]; idx counts the plans
PlanRun ==
    /\ idx < MaxPlans
    /\ \E zfs \in {get_dns_zones(iter, env) :
                      iter \in Orders(get_dns_domains(mail_domains, env))} :
          \E recs \in {r \in [DOMAIN zfs -> UNION {ZoneRecordLists(zfs[i].domain) :
                                                       i \in DOMAIN zfs}] :
                          \A i \in DOMAIN zfs : r[i] \in ZoneRecordLists(zfs[i].domain)} :
            /\ zonefiles' = zfs
            /\ records' = recs
            /\ call' = [op |-> "plan", zonefiles_before |-> zonefiles,
                        records_before |-> records]
    /\ idx' = idx + 1
    /\ UNCHANGED <<inputs, files, pc, updated_domains, hist>>

SpecPlan == PlanInit /\ [][PlanRun]_vars

Planned == call.op = "plan"

\* the TLSA records of the i-th zone
TlsaRecords(i) == SelectSeq(records[i], LAMBDA r : r.rtype = "TLSA")

\* the i-th zone is the zone the primary hostname lies in
HoldsPrimary(i) == Covers(zonefiles[i].domain, env.PRIMARY_HOSTNAME)

\* C11 as stated: the zone of the primary hostname holds exactly one TLSA record,
\* at qname _25._tcp, with value "3 0 1 " and the SHA-256 digest of the
\* certificate, and no other zone of the run holds a TLSA record.
C11_TlsaAtQname ==
    Planned =>
        \A i \in DOMAIN zonefiles :
            IF HoldsPrimary(i)
            THEN /\ Len(TlsaRecords(i)) = 1
                 /\ TlsaRecords(i)[1].qname = <<"_25", "_tcp">>
                 /\ TlsaRecords(i)[1].value = <<"3 0 1 ", "sha256", env.cert>>
            ELSE TlsaRecords(i) = <<>>

\* C11, amended: the zone the primary hostname lies in holds exactly one TLSA
\* record, whose owner name is _25._tcp under the primary hostname (qname
\* _25._tcp when the primary hostname is the apex, _25._tcp.<labels of the
\* primary hostname below the apex> when it is folded into an ancestor's zone),
\* with value "3 0 1 " and the SHA-256 digest of the certificate; no other zone
\* of the run holds a TLSA record.
C11_TlsaAtPrimaryHostname ==
    Planned =>
        \A i \in DOMAIN zonefiles :
            IF HoldsPrimary(i)
            THEN /\ Len(TlsaRecords(i)) = 1
                 /\ TlsaRecords(i)[1].qname \o zonefiles[i].domain
                      = <<"_25", "_tcp">> \o env.PRIMARY_HOSTNAME
                 /\ TlsaRecords(i)[1].value = <<"3 0 1 ", "sha256", env.cert>>
            ELSE TlsaRecords(i) = <<>>

\* the primary hostname is folded into an ancestor's zone, and a second zone is built
C11_Witness ==
    /\ Planned
    /\ Len(zonefiles) >= 2
    /\ \E i \in DOMAIN zonefiles :
          /\ IsStrictSubdomain(env.PRIMARY_HOSTNAME, zonefiles[i].domain)
          /\ Len(TlsaRecords(i)) = 1

\* C19: planned again with the same inputs, a run has the same ordered zone list
\* and the same ordered record list for every zone, whatever order the set of
\* in-use domains is iterated in.
C19_OrderIndependent ==
    Planned /\ idx >= 2 =>
        /\ zonefiles = call.zonefiles_before
        /\ records = call.records_before

\* the positions <<i, j>> of the records of all zones of the plan
AllRecords == UNION {{<<i, j>> : j \in DOMAIN records[i]} : i \in DOMAIN records}

\* the name of x relative to the apex that covers it (lines 146, 148-149)
Relative(x, apex) == IF x = apex THEN None ELSE StripSuffix(x, apex)

\* the MX records of the plan that lie at the name d in a zone that covers d
MxOf(d) ==
    {ij \in AllRecords :
        /\ records[ij[1]][ij[2]].rtype = "MX"
        /\ Covers(zonefiles[ij[1]].domain, d)
        /\ records[ij[1]][ij[2]].qname = Relative(d, zonefiles[ij[1]].domain)}

\* the records of zone i with the given type
OfType(i, rtype) == SelectSeq(records[i], LAMBDA r : r.rtype = rtype)

\* C22: with no overrides, every in-use domain has exactly one MX record in the
\* zones of a run, in the zone that covers it, at its name relative to the apex
\* (null for the apex); a record with qname q of a folded subdomain is in the zone
\* at q followed by the subdomain's relative name (at the relative name if q is
\* null); every zone has exactly two NS records, both with null qname.
C22_Folding ==
    Planned /\ additional_records = <<>> =>
        /\ \A d \in InUse : Cardinality(MxOf(d)) = 1
        /\ Cardinality({ij \in AllRecords : records[ij[1]][ij[2]].rtype = "MX"})
             = Cardinality(InUse)
        /\ \A i \in DOMAIN zonefiles :
              /\ \A d \in InUse :
                    IsStrictSubdomain(d, zonefiles[i].domain) =>
                       LET child == build_zone(d, <<>>, <<>>, env, FALSE)
                           rel   == StripSuffix(d, zonefiles[i].domain)
                       IN  \A k \in DOMAIN child :
                              \E j \in DOMAIN records[i] :
                                 records[i][j] = Rec(child[k].qname \o rel,
                                                     child[k].rtype, child[k].value)
              /\ Len(OfType(i, "NS")) = 2
              /\ \A j \in DOMAIN records[i] :
                    records[i][j].rtype = "NS" => records[i][j].qname = None

\* zone example folds a.example, sub.a.example and the primary hostname, and
\* holds an MX record for each of them
C22_Witness ==
    /\ Planned /\ additional_records = <<>>
    /\ {<<"a", "example">>, <<"sub", "a", "example">>} \subseteq mail_domains
    /\ \E i \in DOMAIN zonefiles :
          /\ zonefiles[i].domain = <<"example">>
          /\ Len(OfType(i, "MX")) = 4
          /\ \E j \in DOMAIN records[i] :
                records[i][j] = Rec(<<"www", "sub", "a">>, "A", <<env.PUBLIC_IP>>)

\* the records of the plan that hold the k-th (type, value) an entry asks for
Contributed(en, k) ==
    {ij \in AllRecords :
        /\ records[ij[1]][ij[2]].rtype = Asked(en)[k][1]
        /\ records[ij[1]][ij[2]].value = OverrideValue(Asked(en)[k][1], Asked(en)[k][2])}

\* C23: in the zones of one run, every record an entry of custom.yaml asks for
\* occurs exactly once if some zone's apex equals the entry's name or is an
\* ancestor of it, in that zone and at the entry's name relative to that apex
\* (also when the name is that of a folded subdomain), and does not occur at all
\* if the entry's name is under no apex of the run.
C23_OverrideScoping ==
    Planned =>
        \A n \in DOMAIN additional_records :
           LET en == additional_records[n]
           IN  \A k \in DOMAIN Asked(en) :
                  IF \E i \in DOMAIN zonefiles : Covers(zonefiles[i].domain, en.name)
                  THEN /\ Cardinality(Contributed(en, k)) = 1
                       /\ \A ij \in Contributed(en, k) :
                             /\ Covers(zonefiles[ij[1]].domain, en.name)
                             /\ records[ij[1]][ij[2]].qname
                                  = Relative(en.name, zonefiles[ij[1]].domain)
                  ELSE Contributed(en, k) = {}

\* two zones, example and example.org: the entry for the folded subdomain
\* a.example is in zone example at qname a, next to the folded default, and the
\* entry for other.org is in no zone
C23_Witness ==
    /\ Planned
    /\ mail_domains = {<<"example">>, <<"a", "example">>, <<"example", "org">>}
    /\ Len(additional_records) = 3
    /\ Len(zonefiles) = 2
    /\ \E i \in DOMAIN zonefiles :
          /\ zonefiles[i].domain = <<"example">>
          /\ \E j \in DOMAIN records[i] :
                records[i][j] = Rec(<<"a">>, "A", <<"198.51.100.9">>)
          /\ \E j \in DOMAIN records[i] :
                records[i][j] = Rec(<<"a">>, "A", <<env.PUBLIC_IP>>)
    /\ \A ij \in AllRecords : records[ij[1]][ij[2]].value # <<"198.51.100.8">>

(***************************************************************************)
(* write_nsd_conf on its own: called for the zones of the appliance while  *)
(* domains are added, starting with the configuration file of the nsd      *)
(* package or with no configuration file.                                  *)
(***************************************************************************)
MaxConfCalls == 3
MaxConfDomains == 2

ConfInit ==
    /\ mail_domains \in {m \in SUBSET PlanPool : Cardinality(m) <= 1}
    /\ additional_records = <<>> /\ env = TheEnv /\ now = 0 /\ dnssec = DnssecGood
    /\ zone_fs = <<>> /\ signed_fs = <<>> /\ ds_fs = <<>>
    /\ nsd_conf \in {<<>>, <<PackagedConf>>}
    /\ tmp_fs = {}
    /\ pc = "idle" /\ zonefiles = <<>> /\ idx = 0 /\ updated_domains = <<>>
    /\ records = <<>>
    /\ call = [op |-> "none"]
    /\ hist = NoHist

\* lines 100-104: write_nsd_conf is called with the .signed names; idx counts the calls
ConfCall ==
    /\ idx < MaxConfCalls
    /\ \E zl \in {get_dns_zones(iter, env) :
                     iter \in Orders(get_dns_domains(mail_domains, env))} :
          LET zfs == [i \in DOMAIN zl |->
                        [zl[i] EXCEPT !.zonefile = @ \o <<".signed">>]] \o <<>>
              w   == write_nsd_conf(zfs, env)
          IN  /\ nsd_conf' = w.conf
              /\ zonefiles' = zfs
              /\ call' = [op |-> "write_nsd_conf", conf_before |-> nsd_conf,
                          raised |-> w.raised, written |-> w.written]
    /\ idx' = idx + 1
    /\ UNCHANGED <<inputs, zone_fs, signed_fs, ds_fs, tmp_fs, pc, updated_domains,
                   records, hist>>

\* a mail domain is added between two calls
AddMailDomain ==
    /\ Cardinality(mail_domains) < MaxConfDomains
    /\ \E d \in PlanPool \ mail_domains : mail_domains' = mail_domains \cup {d}
    /\ UNCHANGED <<additional_records, env, now, dnssec, files, pc, locals, call, hist>>

ConfNext == ConfCall \/ AddMailDomain

SpecConf == ConfInit /\ [][ConfNext]_vars

\* the text write_nsd_conf renders for the zones it was given (lines 330-357)
Rendered == [ip_address |-> env.hostname_I, zones |-> zonefiles]

\* C16: whatever is installed (the rendered text, another text, or no file),
\* write_nsd_conf returns, writes the file if and only if the rendered text
\* differs from what is installed, returns True exactly when it wrote, and leaves
\* the rendered text installed.
C16_ConfWrittenIffDifferent ==
    call.op = "write_nsd_conf" =>
        /\ ~call.raised
        /\ call.written <=> call.conf_before # <<Rendered>>
        /\ call.written <=> nsd_conf # call.conf_before
        /\ nsd_conf = <<Rendered>>

(***************************************************************************)
(* Re-signing over the weeks: one zone whose records never change, a clock *)
(* that advances by half days, a signer that never fails, and a            *)
(* synchronization run completing at least once per day.                   *)
(***************************************************************************)
MaxHalfDays == 130

DailyInit ==
    /\ mail_domains = {WDomain} /\ additional_records = <<>> /\ env = TheEnv
    /\ now = 0
    /\ dnssec = DnssecGood
    /\ zone_fs = <<>> /\ signed_fs = <<>> /\ ds_fs = <<>>
    /\ nsd_conf = <<PackagedConf>> /\ tmp_fs = {}
    /\ pc = "idle" /\ zonefiles = <<>> /\ idx = 0 /\ updated_domains = <<>>
    /\ records = <<>>
    /\ call = [op |-> "boot", at |-> 0]
    /\ hist = NoHist

\* lines 64-73 for the one zone: the run ends here when the zone is unchanged
DailyWrite ==
    /\ pc = "idle"
    /\ LET recs == build_zone(WDomain, <<>>, additional_records, env, TRUE)
           w    == write_nsd_zone(WDomain, WFile, recs, env)
       IN  /\ records' = recs
           /\ zone_fs' = IF w.changed THEN Put(zone_fs, WFile, w.text) ELSE zone_fs
           /\ pc' = IF w.changed THEN "sign" ELSE "idle"
           /\ call' = IF w.changed THEN call ELSE [op |-> "run", at |-> now]
    /\ UNCHANGED <<inputs, signed_fs, ds_fs, nsd_conf, tmp_fs, zonefiles, idx,
                   updated_domains, hist>>

\* line 95 with a signer that works; the run completes
DailySign ==
    /\ pc = "sign"
    /\ LET r == sign_zone(WDomain, WFile, "ok")
       IN  /\ tmp_fs' = r.tmp /\ signed_fs' = r.signed /\ ds_fs' = r.ds
    /\ pc' = "idle"
    /\ call' = [op |-> "run", at |-> now]
    /\ UNCHANGED <<inputs, zone_fs, nsd_conf, locals, hist>>

\* half a day passes; the last completed run is then at most one day (two half
\* days) old
Tick ==
    /\ pc = "idle"
    /\ now < MaxHalfDays
    /\ now + 1 - call.at <= 2
    /\ now' = now + 1
    /\ UNCHANGED <<mail_domains, additional_records, env, dnssec, files, pc, locals,
                   call, hist>>

DailyNext == DailyWrite \/ DailySign \/ Tick

SpecDaily == DailyInit /\ [][DailyNext]_vars

\* C18: with runs completing at least once per day and a signer that never fails,
\* the zone has a signed artifact from its first run on, and the expiry of its
\* SOA signature is always in the future.
C18_SignedBeforeExpiry ==
    /\ call.op = "run" => WFile \in DOMAIN signed_fs
    /\ \A zf \in DOMAIN signed_fs :
          /\ signed_fs[zf].rrsig_soa # <<>>
          /\ \A k \in DOMAIN signed_fs[zf].rrsig_soa :
                2 * DayOf(signed_fs[zf].rrsig_soa[k]) > now

\* the first signature (made on day 0, expiry day 30) has been replaced, and day
\* 30 has passed
C18_Witness ==
    /\ now > 2 * 30
    /\ WFile \in DOMAIN signed_fs
    /\ signed_fs[WFile].src.serial > 2024060100
    /\ 2 * DayOf(signed_fs[WFile].rrsig_soa[1]) > now

====
